---- MODULE Spec2Model ----
(***************************************************************************)
(* Model of folder_sync (src/main.py): one-way periodic mirroring of a     *)
(* source directory tree into a replica directory tree.                    *)
(*                                                                         *)
(* Path strings are sequences of tokens: the separator "/" and names that  *)
(* contain no separator.  The file system maps resolved paths (sequences   *)
(* of components, a component being a run of tokens between separators)    *)
(* to directories and to file contents.  The working directory holds the   *)
(* source root "src" and the replica root "rep" as siblings.               *)
(***************************************************************************)
EXTENDS Naturals, Integers, Sequences, FiniteSets, TLC

(* ---------------- bounds of the explored trees ------------------------- *)
\* files of a source tree, files of an initial replica tree, and directories an initial
\* replica tree names besides those that lead to its files.  The trees are drawn from the
\* paths of RelPaths (a, b, a/a): a tree over them holds at most two files, as a file and
\* a directory cannot share the name a.
MaxSrcFiles == 2
MaxRepFiles == 2
MaxRepDirs == 1

Names == {"a", "b"}
DirNames == {"a"}
NestedNames == {"a"}
Contents == {"X", "Y"}
Sep == "/"

\* the ways the two roots can be written on the command line (main.py:10-11)
SourceArgs == {<<"src">>, <<"src", Sep>>}
ReplicaArgs == {<<"rep">>, <<"rep", Sep>>}

VARIABLES
  source,               \* args.source, the source folder string
  replica,              \* args.replica, the replica folder string
  dirs,                 \* file system: set of resolved paths that are directories
  files,                \* file system: resolved path of a regular file -> content
  pc,                   \* position of the process
  list_of_source_files, \* synchronize_folder local (line 159)
  source_hash_values,   \* synchronize_folder local (line 161)
  replica_hash_values,  \* synchronize_folder local (line 162)
  replica_file_names,   \* synchronize_folder local (line 163)
  log,                  \* lines appended to LOG_FILE during the current cycle, by kind
  exit_status,          \* process exit status: 0 while running
  hist                  \* observations of the run used to state properties

vars == <<source, replica, dirs, files, pc, list_of_source_files, source_hash_values,
          replica_hash_values, replica_file_names, log, exit_status, hist>>

(* ------------------------- path strings ------------------------------- *)
\* components of a path string: runs of tokens between separators
RECURSIVE Comps(_, _, _)
Comps(s, cur, acc) ==
  IF s = <<>> THEN (IF cur = <<>> THEN acc ELSE Append(acc, cur))
  ELSE IF Head(s) = Sep
       THEN Comps(Tail(s), <<>>, IF cur = <<>> THEN acc ELSE Append(acc, cur))
       ELSE Comps(Tail(s), Append(cur, Head(s)), acc)

\* the file system object a path string names
Resolve(s) == Comps(s, <<>>, <<>>)

LastSep(s) ==
  LET idx == {i \in 1..Len(s) : s[i] = Sep}
  IN IF idx = {} THEN 0 ELSE CHOOSE i \in idx : \A j \in idx : j <= i

\* os.path.split(s)[1]
Basename(s) == SubSeq(s, LastSep(s) + 1, Len(s))

\* os.path.join(a, b) for non-empty a and relative b
Join(a, b) == IF a[Len(a)] = Sep THEN a \o b ELSE a \o <<Sep>> \o b

\* file[len(folder):-len(split_file[1])]
get_file_path_relative_to_folder(file, folder) ==
  LET split_file == Basename(file)
  IN IF Len(split_file) = 0 THEN <<>>
     ELSE SubSeq(file, Len(folder) + 1, Len(file) - Len(split_file))

\* hashlib.md5 of a file's bytes; distinct contents of the model have distinct digests
Md5(c) == <<"md5", c>>

(* ------------------------- file system -------------------------------- *)
Parent(p) == SubSeq(p, 1, Len(p) - 1)
ChildDirs(p, D) == {d \in D : Len(d) = Len(p) + 1 /\ Parent(d) = p}
ChildFiles(p, F) == {f \in DOMAIN F : Len(f) = Len(p) + 1 /\ Parent(f) = p}
\* os.listdir(p)
ListDir(p, D, F) == ChildDirs(p, D) \cup ChildFiles(p, F)

\* directory path strings os.walk(top) yields, top-down
RECURSIVE WalkDirs(_, _)
WalkDirs(dstr, D) ==
  {dstr} \cup UNION {WalkDirs(Join(dstr, c[Len(c)]), D) : c \in ChildDirs(Resolve(dstr), D)}

Walk(top, D) == IF Resolve(top) \in D THEN WalkDirs(top, D) ELSE {}

\* line 63: os.path.join(root, f) for every file of every walked directory
AggregateFiles(folder, D, F) ==
  UNION {{Join(r, f[Len(f)]) : f \in ChildFiles(Resolve(r), F)} : r \in Walk(folder, D)}

\* class FileNameHash, lines 24-36
FileNameHash(absolute_path, folder, F) ==
  LET rel == get_file_path_relative_to_folder(absolute_path, folder)
      name == Basename(absolute_path)
  IN [absolute_path |-> absolute_path,
      path_relative_to_folder |-> rel,
      file_name |-> name,
      relative_file_name_to_folder |-> rel \o name,
      hash_value |-> Md5(F[Resolve(absolute_path)])]

\* lines 53-65 (the records, as a set; their order is the order of os.walk)
get_files_from_folder(folder, D, F) ==
  {FileNameHash(file, folder, F) : file \in AggregateFiles(folder, D, F)}

HashValues(recs) == {item.hash_value : item \in recs}
FileNames(recs) == {item.relative_file_name_to_folder : item \in recs}

(* ------------------------- order of os.walk --------------------------- *)
IsPrefix(p, q) == Len(p) <= Len(q) /\ SubSeq(q, 1, Len(p)) = p

\* the shortest prefix of directory v that leaves the chain of directories down to w
BranchOf(v, w) ==
  LET ks == {k \in 1..Len(v) : ~IsPrefix(SubSeq(v, 1, k), w)}
  IN SubSeq(v, 1, CHOOSE k \in ks : \A j \in ks : k <= j)

\* os.walk is top-down and lists a directory in an order the file system chooses:
\* R can be what is visited before f, for items x visited at directory visit[x]
IsWalkPrefix(R, f, all, visit) ==
  /\ R \subseteq all \ {f}
  /\ \A x \in all \ {f} :
       /\ (visit[x] # visit[f] /\ IsPrefix(visit[x], visit[f])) => x \in R
       /\ (visit[x] # visit[f] /\ IsPrefix(visit[f], visit[x])) => x \notin R
  /\ \A x, y \in all \ {f} :
       (/\ ~IsPrefix(visit[x], visit[f]) /\ ~IsPrefix(visit[f], visit[x])
        /\ ~IsPrefix(visit[y], visit[f]) /\ ~IsPrefix(visit[f], visit[y])
        /\ BranchOf(visit[x], visit[f]) = BranchOf(visit[y], visit[f]))
       => (x \in R <=> y \in R)

\* the directory at which os.walk delivers a file record, an empty directory
FileVisit(recs) == [item \in recs |-> Parent(Resolve(item.absolute_path))]
DirVisit(ds) == [d \in ds |-> Resolve(d)]

\* the orders in which os.walk can deliver the records of a snapshot
WalkOrders(recs) ==
  {s \in [1..Cardinality(recs) -> recs] :
     /\ \A i, j \in DOMAIN s : i # j => s[i] # s[j]
     /\ \A i \in DOMAIN s : IsWalkPrefix({s[j] : j \in 1..(i - 1)}, s[i], recs, FileVisit(recs))}

\* what an environment fault can hit in one batch: nothing, or one of its items
FaultSets(S) == {{}} \cup {{x} : x \in S}

(* ------------------------- initial trees ------------------------------ *)
SrcRoot == <<<<"src">>>>
RepRoot == <<<<"rep">>>>
\* paths below a root: a name, or a name inside a directory
RelPaths == {<<<<n>>>> : n \in Names} \cup {<<<<d>>, <<n>>>> : d \in DirNames, n \in NestedNames}
Under(root, S) == {root \o p : p \in S}

\* sets of file paths no one of which lies below another
FileSets(max) ==
  {S \in SUBSET RelPaths :
     /\ Cardinality(S) <= max
     /\ \A p, q \in S : p # q => ~IsPrefix(p, q)}

\* directories given explicitly, compatible with the files
DirSets(S, max) ==
  {E \in SUBSET RelPaths :
     /\ Cardinality(E) <= max
     /\ \A e \in E : \A p \in S : ~IsPrefix(p, e)}

\* the directories of a tree holding the files S and the directories E
TreeDirs(root, S, E) ==
  {root} \cup Under(root, {q \in RelPaths : \E p \in S \cup E : IsPrefix(q, p) /\ (q # p \/ p \in E)})

NoLog == [copied |-> {}, removed |-> {}, removed_dirs |-> {}, errors |-> 0]

NoHist ==
  [envDirs |-> {}, envFiles |-> <<>>, faults |-> FALSE, quiet |-> 0, done |-> FALSE,
   startSrc |-> {}, startRep |-> {}, batch |-> {}, bad |-> {}, toCopy |-> {},
   copyBad |-> {}, copyFailed |-> {}, written |-> {}, pruneList |-> {}, pruneBad |-> {},
   moved |-> <<>>]

SrcPart(D) == {d \in D : IsPrefix(SrcRoot, d)}
SrcFilesOf(F) == [f \in {g \in DOMAIN F : IsPrefix(SrcRoot, g)} |-> F[f]]

Init ==
  /\ source \in SourceArgs
  /\ replica \in ReplicaArgs
  /\ \E srcExists, repExists \in BOOLEAN :
     \E SF \in FileSets(MaxSrcFiles), RF \in FileSets(MaxRepFiles) :
     \E RE \in DirSets(RF, MaxRepDirs) :
     \E sc \in [SF -> Contents], rc \in [RF -> Contents] :
       /\ (~srcExists => SF = {})
       /\ (~repExists => RF = {} /\ RE = {})
       /\ dirs = (IF srcExists THEN TreeDirs(SrcRoot, SF, {}) ELSE {})
                 \cup (IF repExists THEN TreeDirs(RepRoot, RF, RE) ELSE {})
       /\ files = [p \in Under(SrcRoot, SF) \cup Under(RepRoot, RF) |->
                     IF IsPrefix(SrcRoot, p) THEN sc[SubSeq(p, 2, Len(p))]
                                             ELSE rc[SubSeq(p, 2, Len(p))]]
  /\ pc = "start"
  /\ list_of_source_files = {}
  /\ source_hash_values = {}
  /\ replica_hash_values = {}
  /\ replica_file_names = {}
  /\ log = NoLog
  /\ exit_status = 0
  /\ hist = [NoHist EXCEPT !.envDirs = SrcPart(dirs), !.envFiles = SrcFilesOf(files)]

(* ------------------------- startup ------------------------------------ *)
\* variant: only the source directory is validated
Startup_SourceOnly ==
  /\ pc = "start"
  /\ IF Resolve(source) \notin dirs
     THEN /\ log' = [log EXCEPT !.errors = @ + 1]
          /\ exit_status' = 1
          /\ pc' = "exited"
     ELSE /\ pc' = "sync"
          /\ UNCHANGED <<log, exit_status>>
  /\ UNCHANGED <<source, replica, dirs, files, list_of_source_files, source_hash_values,
                 replica_hash_values, replica_file_names, hist>>

\* lines 203-212
Startup ==
  /\ pc = "start"
  /\ IF Resolve(source) \notin dirs \/ Resolve(replica) \notin dirs
     THEN /\ log' = [log EXCEPT !.errors = @ + 1]
          /\ exit_status' = 1
          /\ pc' = "exited"
     ELSE /\ pc' = "sync"
          /\ UNCHANGED <<log, exit_status>>
  /\ UNCHANGED <<source, replica, dirs, files, list_of_source_files, source_hash_values,
                 replica_hash_values, replica_file_names, hist>>

(* ------------------------- executor ----------------------------------- *)
Prefixes(p) == {SubSeq(p, 1, k) : k \in 1..Len(p)}
Without(F, S) == [f \in DOMAIN F \ S |-> F[f]]
With(F, p, c) == [f \in DOMAIN F \cup {p} |-> IF f = p THEN c ELSE F[f]]

\* os.makedirs(full_path, exist_ok=True): the directories it leaves behind
MakeDirs(P, D, F) ==
  LET blocked == {k \in 1..Len(P) : SubSeq(P, 1, k) \in DOMAIN F}
  IN IF blocked = {} THEN D \cup Prefixes(P)
     ELSE D \cup {SubSeq(P, 1, k) : k \in {j \in 1..Len(P) : \A b \in blocked : j < b}}

MakeDirsOk(P, F) == \A k \in 1..Len(P) : SubSeq(P, 1, k) \notin DOMAIN F

\* lines 84-101; fs = [dirs, files, log, written, failed], the last two observing where
\* the copies landed and which of them raised; fails: shutil.copy raises for a reason of
\* the environment (source vanished, destination unwritable)
copy_file(fs, item, replica_folder, fails) ==
  LET rel_path == item.path_relative_to_folder
      full_path == replica_folder \o rel_path
      P == Resolve(full_path)
      D1 == MakeDirs(P, fs.dirs, fs.files)
      from == Resolve(item.absolute_path)
      dst == Resolve(Join(full_path, Basename(item.absolute_path)))
      ok == /\ MakeDirsOk(P, fs.files)
            /\ ~fails
            /\ from \in DOMAIN fs.files
            /\ dst \notin D1
  IN IF ok
     THEN [fs EXCEPT !.dirs = D1,
                     !.files = With(fs.files, dst, fs.files[from]),
                     !.log = [@ EXCEPT !.copied = @ \cup {item.absolute_path}],
                     !.written = @ \cup {dst}]
     ELSE [fs EXCEPT !.dirs = D1,
                     !.log = [@ EXCEPT !.errors = @ + 1],
                     !.failed = @ \cup {item.absolute_path}]

\* variant: one try block around the whole loop, as in remove_file
RECURSIVE CopyLoop_OneTry(_, _, _, _, _)
CopyLoop_OneTry(fs, order, i, replica_folder, bad) ==
  IF i > Len(order) THEN fs
  ELSE LET out == copy_file(fs, order[i], replica_folder, order[i] \in bad)
       IN IF out.failed # fs.failed THEN out
          ELSE CopyLoop_OneTry(out, order, i + 1, replica_folder, bad)

\* the loop of lines 166-173 over the selected records, in the order of the snapshot;
\* copy_file catches its own exception, so the loop goes on after a failure
RECURSIVE CopyLoop(_, _, _, _, _)
CopyLoop(fs, order, i, replica_folder, bad) ==
  IF i > Len(order) THEN fs
  ELSE CopyLoop(copy_file(fs, order[i], replica_folder, order[i] \in bad),
                order, i + 1, replica_folder, bad)

\* variant: every source record is copied, whatever the replica holds
ToCopy_Always(src_files, rep_names, rep_hashes) == src_files

\* lines 167-173: the records of the source snapshot that are copied
ToCopy(src_files, rep_names, rep_hashes) ==
  {item \in src_files :
     \/ item.relative_file_name_to_folder \notin rep_names
     \/ item.hash_value \notin rep_hashes}

\* lines 104-118: os.remove raises for the records of bad; one try block spans the loop,
\* so the records removed are those visited before the first one that raises
RemovedBy(files_to_remove, bad) ==
  IF bad = {} THEN {files_to_remove}
  ELSE {R \in SUBSET (files_to_remove \ bad) :
          \E f \in bad : IsWalkPrefix(R, f, files_to_remove, FileVisit(files_to_remove))}

remove_file(F, L, R, bad) ==
  [files |-> Without(F, {Resolve(item.absolute_path) : item \in R}),
   log |-> [L EXCEPT !.removed = @ \cup {item.absolute_path : item \in R},
                     !.errors = IF bad = {} THEN @ ELSE @ + 1]]

\* variant: only the top directory is examined
EmptyDirs_TopOnly(dir_name, D, F) ==
  {d \in Walk(dir_name, D) : Resolve(d) = Resolve(dir_name) /\ ListDir(Resolve(d), D, F) = {}}

\* line 128
EmptyDirs(dir_name, D, F) == {d \in Walk(dir_name, D) : ListDir(Resolve(d), D, F) = {}}

\* variant: the loop over the candidates never runs
PrunedBy_None(empty_dirs, bad) == {{}}

\* lines 129-136: os.rmdir raises for the directories of bad; one try block spans the loop
PrunedBy(empty_dirs, bad) ==
  IF bad = {} THEN {empty_dirs}
  ELSE {R \in SUBSET (empty_dirs \ bad) :
          \E f \in bad : IsWalkPrefix(R, f, empty_dirs, DirVisit(empty_dirs))}

(* ------------------------- one cycle ---------------------------------- *)
Pairs(recs) == {<<item.relative_file_name_to_folder, item.hash_value>> : item \in recs}

\* an uncaught exception leaves synchronize_folder and main: the process dies
Crash ==
  /\ pc' = "crashed"
  /\ exit_status' = 1
  /\ list_of_source_files' = {}
  /\ source_hash_values' = {}
  /\ replica_hash_values' = {}
  /\ replica_file_names' = {}
  /\ UNCHANGED <<source, replica, dirs, files, log>>
  /\ hist' = [hist EXCEPT !.faults = TRUE]

\* the faults the environment may inject, when faults are on
ReadFaults(on) == IF on THEN BOOLEAN ELSE {FALSE}
Faults(S, on) == IF on THEN FaultSets(S) ELSE {{}}

\* variant: the membership test inverted
NewReplicaHashValues_Inverted(rep, src_hashes) == {item \in rep : item.hash_value \in src_hashes}

\* line 177
NewReplicaHashValues(rep, src_hashes) == {item \in rep : item.hash_value \notin src_hashes}

\* variant: the two snapshots exchanged
NewReplicaNames_Swapped(rep, src) ==
  {item \in src : item.relative_file_name_to_folder \notin FileNames(rep)}

\* lines 182-183
NewReplicaNames(rep, src) ==
  {item \in rep : item.relative_file_name_to_folder \notin FileNames(src)}

\* lines 159-163
ScanStep(on) ==
  /\ pc = "sync"
  /\ LET src == get_files_from_folder(source, dirs, files)
         rep == get_files_from_folder(replica, dirs, files)
     IN \E readFails \in ReadFaults(on) :
          IF readFails
          THEN /\ src \cup rep # {}
               /\ Crash
          ELSE /\ list_of_source_files' = src
               /\ source_hash_values' = HashValues(src)
               /\ replica_hash_values' = HashValues(rep)
               /\ replica_file_names' = FileNames(rep)
               /\ pc' = "copy"
               /\ hist' = [hist EXCEPT !.startSrc = src, !.startRep = rep]
               /\ UNCHANGED <<source, replica, dirs, files, log, exit_status>>

\* lines 165-173
CopyStep(on) ==
  /\ pc = "copy"
  /\ LET sel == ToCopy(list_of_source_files, replica_file_names, replica_hash_values)
     IN \E order \in WalkOrders(sel), bad \in Faults(sel, on) :
          LET fs == CopyLoop([dirs |-> dirs, files |-> files, log |-> log,
                              written |-> {}, failed |-> {}],
                             order, 1, replica, bad)
          IN /\ dirs' = fs.dirs
             /\ files' = fs.files
             /\ log' = fs.log
             /\ hist' = [hist EXCEPT !.faults = @ \/ bad # {}, !.toCopy = sel,
                                     !.copyBad = bad, !.written = fs.written,
                                     !.copyFailed = fs.failed]
  /\ pc' = "pass1"
  /\ UNCHANGED <<source, replica, list_of_source_files, source_hash_values,
                 replica_hash_values, replica_file_names, exit_status>>

\* lines 175-178
Pass1Step(on) ==
  /\ pc = "pass1"
  /\ LET rep == get_files_from_folder(replica, dirs, files)
         new_replica_hash_values == NewReplicaHashValues(rep, source_hash_values)
     IN \E readFails \in ReadFaults(on) :
          IF readFails
          THEN /\ rep # {}
               /\ Crash
          ELSE \E bad \in Faults(new_replica_hash_values, on) :
               \E R \in RemovedBy(new_replica_hash_values, bad) :
                 LET out == remove_file(files, log, R, bad)
                 IN /\ files' = out.files
                    /\ log' = out.log
                    /\ hist' = [hist EXCEPT !.faults = @ \/ bad # {},
                                            !.batch = new_replica_hash_values, !.bad = bad]
                    /\ pc' = "pass2"
                    /\ UNCHANGED <<source, replica, dirs, list_of_source_files,
                                   source_hash_values, replica_hash_values,
                                   replica_file_names, exit_status>>

\* lines 180-184
Pass2Step(on) ==
  /\ pc = "pass2"
  /\ LET rep == get_files_from_folder(replica, dirs, files)
         src == get_files_from_folder(source, dirs, files)
         new_replica_names == NewReplicaNames(rep, src)
     IN \E readFails \in ReadFaults(on) :
          IF readFails
          THEN /\ src \cup rep # {}
               /\ Crash
          ELSE \E bad \in Faults(new_replica_names, on) :
               \E R \in RemovedBy(new_replica_names, bad) :
                 LET out == remove_file(files, log, R, bad)
                 IN /\ files' = out.files
                    /\ log' = out.log
                    /\ list_of_source_files' = src
                    /\ hist' = [hist EXCEPT !.faults = @ \/ bad # {},
                                            !.batch = new_replica_names, !.bad = bad]
                    /\ pc' = "prune"
                    /\ UNCHANGED <<source, replica, dirs, source_hash_values,
                                   replica_hash_values, replica_file_names, exit_status>>

\* line 186, and the return into the loop of main
PruneStep(on) ==
  /\ pc = "prune"
  /\ LET empty_dirs == EmptyDirs(replica, dirs, files)
     IN \E bad \in Faults(empty_dirs, on) :
        \E R \in PrunedBy(empty_dirs, bad) :
          /\ dirs' = dirs \ {Resolve(d) : d \in R}
          /\ log' = [log EXCEPT !.removed_dirs = @ \cup R,
                                !.errors = IF bad = {} THEN @ ELSE @ + 1]
          /\ hist' = [hist EXCEPT !.faults = @ \/ bad # {},
                                  !.done = TRUE,
                                  !.pruneList = empty_dirs,
                                  !.pruneBad = bad,
                                  !.quiet = IF hist.faults \/ bad # {} \/ log.errors > 0 THEN 0
                                            ELSE IF @ < 2 THEN @ + 1 ELSE @,
                                  !.moved = IF @ = <<>> THEN @
                                            ELSE [@ EXCEPT !.synced = TRUE]]
  /\ pc' = "sleep"
  /\ list_of_source_files' = {}
  /\ source_hash_values' = {}
  /\ replica_hash_values' = {}
  /\ replica_file_names' = {}
  /\ UNCHANGED <<source, replica, files, exit_status>>

Scan == ScanStep(TRUE)
Copy == CopyStep(TRUE)
Pass1 == Pass1Step(TRUE)
Pass2 == Pass2Step(TRUE)
Prune == PruneStep(TRUE)

\* line 200: time.sleep returns and the loop of main starts the next cycle
Sleep ==
  /\ pc = "sleep"
  /\ pc' = "sync"
  /\ log' = NoLog
  /\ hist' = [NoHist EXCEPT !.envDirs = hist.envDirs, !.envFiles = hist.envFiles,
                            !.quiet = hist.quiet,
                            !.moved = IF hist.moved # <<>> /\ ~hist.moved.synced
                                      THEN hist.moved ELSE <<>>]
  /\ UNCHANGED <<source, replica, dirs, files, list_of_source_files, source_hash_values,
                 replica_hash_values, replica_file_names, exit_status>>

(* ------------------------- environment -------------------------------- *)
\* The user changes the source tree while the process sleeps between two cycles: the
\* changes are in place when time.sleep returns and the next cycle is about to scan.
SrcFilePaths(F) == {f \in DOMAIN F : IsPrefix(SrcRoot, f)}

\* directories of the source that hold nothing are removed with their last file
SrcDirsFor(F) ==
  {SrcRoot} \cup {d \in Under(SrcRoot, RelPaths) :
                    \E f \in SrcFilePaths(F) : IsPrefix(d, f) /\ d # f}

CanHold(F, P) ==
  /\ \A f \in SrcFilePaths(F) : f # P => (~IsPrefix(f, P) /\ ~IsPrefix(P, f))
  /\ Cardinality(SrcFilePaths(F) \cup {P}) <= MaxSrcFiles

Mirrored(D, F) ==
  Pairs(get_files_from_folder(replica, D, F)) = Pairs(get_files_from_folder(source, D, F))

KeyOf(P, D, F) ==
  LET r == CHOOSE item \in get_files_from_folder(source, D, F) : Resolve(item.absolute_path) = P
  IN r.relative_file_name_to_folder

EnvEffect(F, mv) ==
  /\ files' = F
  /\ dirs' = {d \in dirs : ~IsPrefix(SrcRoot, d)} \cup SrcDirsFor(F)
  /\ hist' = [NoHist EXCEPT !.envDirs = SrcDirsFor(F), !.envFiles = SrcFilesOf(F),
                            !.moved = mv]
  /\ log' = NoLog
  /\ UNCHANGED <<source, replica, pc, list_of_source_files, source_hash_values,
                 replica_hash_values, replica_file_names, exit_status>>

\* a file of the source is created or rewritten
EnvWrite ==
  /\ pc = "sync"
  /\ \E p \in RelPaths, c \in Contents :
       LET P == SrcRoot \o p
       IN /\ CanHold(files, P)
          /\ (P \in DOMAIN files => files[P] # c)
          /\ EnvEffect(With(files, P, c), <<>>)

\* a file of the source is deleted
EnvRemove ==
  /\ pc = "sync"
  /\ \E P \in SrcFilePaths(files) : EnvEffect(Without(files, {P}), <<>>)

\* a file of the source is moved to a path that is free, its content unchanged
EnvMove ==
  /\ pc = "sync"
  /\ \E P \in SrcFilePaths(files), q \in RelPaths :
       LET Q == SrcRoot \o q
           F1 == Without(files, {P})
           F2 == With(F1, Q, files[P])
       IN /\ Q # P
          /\ Q \notin DOMAIN files
          /\ CanHold(F1, Q)
          /\ EnvEffect(F2,
               IF Mirrored(dirs, files)
               THEN [old |-> KeyOf(P, dirs, files),
                     new |-> KeyOf(Q, {d \in dirs : ~IsPrefix(SrcRoot, d)} \cup SrcDirsFor(F2), F2),
                     hash |-> Md5(files[P]), synced |-> FALSE]
               ELSE <<>>)

Next ==
  \/ Startup
  \/ Scan
  \/ Copy
  \/ Pass1
  \/ Pass2
  \/ Prune
  \/ Sleep
  \/ EnvWrite
  \/ EnvRemove
  \/ EnvMove

Spec == Init /\ [][Next]_vars

\* the same program when the environment neither injects faults nor changes the source
\* any more; the process is scheduled until it exits
NextQuiet ==
  \/ Startup
  \/ ScanStep(FALSE)
  \/ CopyStep(FALSE)
  \/ Pass1Step(FALSE)
  \/ Pass2Step(FALSE)
  \/ PruneStep(FALSE)
  \/ Sleep

QuietSpec == Init /\ [][NextQuiet]_vars /\ WF_vars(NextQuiet)

(* ------------------------- properties --------------------------------- *)
SrcRecs == get_files_from_folder(source, dirs, files)
RepRecs == get_files_from_folder(replica, dirs, files)

\* a cycle has run to its end and none of its operations raised
CycleDone == pc = "sleep" /\ hist.done
FailureFree == ~hist.faults /\ log.errors = 0

\* C1 (convergence in one cycle): at the end of a failure-free cycle the replica's set of
\* (relativeKey, fingerprint) pairs equals the source's set.
C1_ConvergenceInOneCycle ==
  (CycleDone /\ FailureFree) => Pairs(RepRecs) = Pairs(SrcRecs)

\* C2 (idempotence): the second of two cycles run in succession, with no change of the
\* file system by the environment between or during them and no operation raising,
\* copies nothing and deletes nothing.
C2_Idempotence ==
  (CycleDone /\ hist.quiet = 2) => (log.copied = {} /\ log.removed = {})

\* C3 (eventual mirroring): when the source has stopped changing and no action fails, the
\* state "replica pairs = source pairs" is eventually reached and then stays true, from
\* every initial replica state (unless startup validation ended the process).
C3_EventualMirroring ==
  <>[](pc = "exited" \/ Mirrored(dirs, files))

\* the replica records of the cycle's first scan that equal a source record in
\* relativeKey and fingerprint
MatchingAtStart ==
  {r \in hist.startRep :
     \E x \in hist.startSrc :
       /\ x.relative_file_name_to_folder = r.relative_file_name_to_folder
       /\ x.hash_value = r.hash_value}

\* C4 (no self-deletion of matching files): a replica file that equals a source file in
\* relativeKey and fingerprint at the start of a cycle is, throughout that cycle, neither
\* written by a copy nor removed, and keeps its content.
C4_MatchingFilesUntouched ==
  \A r \in MatchingAtStart :
    /\ Resolve(r.absolute_path) \in DOMAIN files
    /\ Md5(files[Resolve(r.absolute_path)]) = r.hash_value
    /\ Resolve(r.absolute_path) \notin hist.written
    /\ r.absolute_path \notin log.removed

C4_Witness ==
  /\ CycleDone
  /\ MatchingAtStart # {}
  /\ log.copied # {}

\* C5 (content-based rename detection): the replica mirrored the source, one source file
\* was moved to a new relativeKey with its content unchanged, and one cycle ran without
\* a fault of the environment: the replica has no file at the old relativeKey and has a
\* file with the same fingerprint at the new one.
C5_RenameDetection ==
  (CycleDone /\ ~hist.faults /\ hist.moved # <<>>) =>
    /\ hist.moved.old \notin FileNames(RepRecs)
    /\ <<hist.moved.new, hist.moved.hash>> \in Pairs(RepRecs)

\* C6 (empty source): the source holds no file, the replica holds some, and one cycle ran
\* without a fault of the environment: the replica root exists and holds neither files
\* nor directories.
C6_EmptySource ==
  (CycleDone /\ ~hist.faults /\ hist.startSrc = {} /\ hist.startRep # {}) =>
    /\ Resolve(replica) \in dirs
    /\ \A p \in dirs \cup DOMAIN files :
         ~(IsPrefix(Resolve(replica), p) /\ p # Resolve(replica))

C8_DeleteBatchIsolation ==
  (pc \in {"pass2", "prune"}) =>
    /\ hist.bad # {} => log.errors > 0
    /\ \A item \in hist.batch \ hist.bad : Resolve(item.absolute_path) \notin DOMAIN files

\* C9 (no single-file error aborts a cycle or the process): the process ends only by the
\* startup validation; a read error on one file never ends it.
C9_NoSingleFileErrorAborts ==
  /\ pc # "crashed"
  /\ exit_status # 0 => pc = "exited"

\* C10 (copy failure isolation): when the copy loop has ended, every selected record has
\* either been copied, its content standing at its destination, or has raised itself and
\* been logged, one line for each; whatever failed, the cycle goes on to the first
\* deletion pass.
C10_CopyFailureIsolation ==
  /\ [](pc = "pass1" =>
         /\ \A item \in hist.toCopy :
              \/ item.absolute_path \in hist.copyFailed
              \/ LET dst == Resolve(Join(replica \o item.path_relative_to_folder,
                                         item.file_name))
                 IN /\ item.absolute_path \in log.copied
                    /\ dst \in DOMAIN files
                    /\ files[dst] = files[Resolve(item.absolute_path)]
         /\ {item.absolute_path : item \in hist.copyBad} \subseteq hist.copyFailed
         /\ log.errors = Cardinality(hist.copyFailed))
  /\ [][pc = "copy" => pc' = "pass1"]_vars

C10_Witness ==
  /\ CycleDone
  /\ hist.copyBad # {}
  /\ log.copied # {}

\* os.path.isdir of the two roots
RootsValid == Resolve(source) \in dirs /\ Resolve(replica) \in dirs

\* C11 (startup validation): when the source path or the replica path is not a directory
\* at start, the program logs one error and exits with status 1, the file system is left
\* as it was, and the process takes no step after that: no cycle ever starts.
C11_StartupValidation ==
  /\ [][(pc = "start" /\ ~RootsValid) =>
          /\ pc' = "exited"
          /\ exit_status' = 1
          /\ log'.errors = log.errors + 1
          /\ dirs' = dirs /\ files' = files]_vars
  /\ [][pc # "exited"]_vars
  /\ [](pc = "exited" => (exit_status # 0 /\ hist.startSrc = {} /\ hist.startRep = {}
                          /\ log.copied = {} /\ log.removed = {} /\ log.removed_dirs = {}))

C11_Witness ==
  /\ pc = "exited"
  /\ Resolve(source) \in dirs
  /\ Resolve(replica) \notin dirs

\* the process with faults and a changing source, under weak fairness of its steps
FairSpec == Spec /\ WF_vars(Next)

Syncing == pc \in {"copy", "pass1", "pass2", "prune"}
Idle == pc \in {"sync", "sleep"}

\* C12 (the driver has no terminal state): after a successful startup the driver is always
\* Idle or Syncing, a finished cycle leads to Idle and then to the next cycle, and so a
\* cycle is started again and again in every behaviour; a cycle begins only from Idle.
C12_DriverNeverStops ==
  /\ [](pc \notin {"start", "exited"} => (Idle \/ Syncing))
  /\ [][(pc' = "copy" /\ pc # "copy") => pc = "sync"]_vars
  /\ [][pc = "prune" => pc' = "sleep"]_vars
  /\ [](pc \notin {"start", "exited"} => <>(pc = "sync"))

\* the directories that held a file removed in this cycle
EmptiedParents == {Parent(Resolve(r)) : r \in log.removed}

\* C13 (ordering within one cycle): files are copied only in the copy phase, which is
\* followed by the first deletion pass; files are removed only in the two deletion passes,
\* which come after the copy phase; directories are removed only in the prune step, which
\* comes after both passes; and a directory that this cycle's deletions left without
\* entries is removed by the prune step of the same cycle (unless an rmdir raised).
C13_OrderWithinCycle ==
  /\ [][(log'.copied \ log.copied # {}) => pc = "copy"]_vars
  /\ [][(log'.removed \ log.removed # {}) => pc \in {"pass1", "pass2"}]_vars
  /\ [][(log'.removed_dirs \ log.removed_dirs # {}) => pc = "prune"]_vars
  /\ [][(DOMAIN files' \ DOMAIN files # {} /\ pc \notin {"sync"}) => pc = "copy"]_vars
  /\ [][(DOMAIN files \ DOMAIN files' # {} /\ pc \notin {"sync"}) =>
           pc \in {"pass1", "pass2"}]_vars
  /\ [][pc = "copy" => pc' = "pass1"]_vars
  /\ [][pc = "pass1" => pc' \in {"pass2", "crashed"}]_vars
  /\ [][pc = "pass2" => pc' \in {"prune", "crashed"}]_vars
  /\ [][(pc = "prune" /\ hist'.pruneBad = {}) =>
           \A P \in EmptiedParents :
              (P \in dirs /\ ListDir(P, dirs, files) = {}) => P \notin dirs']_vars

C13_Witness ==
  /\ CycleDone
  /\ hist.pruneBad = {}
  /\ log.copied # {}
  /\ \E P \in EmptiedParents : P # Resolve(replica) /\ P \notin dirs
                               /\ P \in {Resolve(d) : d \in log.removed_dirs}

\* the source records the copy rule of the specification selects: key absent from the
\* replica snapshot, or the replica record at the same key has another fingerprint
SelectedByKey(src, rep) ==
  {item \in src :
     \/ item.relative_file_name_to_folder \notin FileNames(rep)
     \/ \E r \in rep : /\ r.relative_file_name_to_folder = item.relative_file_name_to_folder
                       /\ r.hash_value # item.hash_value}

\* C14 (copy decision rule): the records the copy loop selects are exactly the source
\* records whose key is absent from the replica snapshot or whose replica record at the
\* same key has a different fingerprint; replica records at other keys play no part.
C14_CopyDecisionRule ==
  pc = "pass1" => hist.toCopy = SelectedByKey(hist.startSrc, hist.startRep)

\* the resolved paths of a set of records
PathsOf(recs) == {Resolve(item.absolute_path) : item \in recs}

\* the replica files whose fingerprint equals no source fingerprint
Pass1Set == {item \in RepRecs : item.hash_value \notin HashValues(SrcRecs)}

\* the replica files whose key is not the key of a source file
Pass2Set == {item \in RepRecs : item.relative_file_name_to_folder \notin FileNames(SrcRecs)}

\* C15 (deletion set exactness): in a cycle without failures the first pass removes
\* exactly the files of the post-copy replica whose fingerprint equals no source
\* fingerprint, the second pass removes exactly the files of the replica as it is after
\* the first pass whose key is not a source key, every removal is logged, and no other
\* step of the cycle removes a file.
C15_DeletionSetExact ==
  /\ [][(pc = "pass1" /\ pc' = "pass2" /\ ~hist'.faults) =>
          /\ DOMAIN files \ DOMAIN files' = PathsOf(Pass1Set)
          /\ log'.removed = log.removed \cup {item.absolute_path : item \in Pass1Set}
          /\ \A p \in DOMAIN files' : p \in DOMAIN files /\ files'[p] = files[p]]_vars
  /\ [][(pc = "pass2" /\ pc' = "prune" /\ ~hist'.faults) =>
          /\ DOMAIN files \ DOMAIN files' = PathsOf(Pass2Set)
          /\ log'.removed = log.removed \cup {item.absolute_path : item \in Pass2Set}
          /\ \A p \in DOMAIN files' : p \in DOMAIN files /\ files'[p] = files[p]]_vars
  /\ [][(pc \in {"copy", "prune", "sleep", "start"}) =>
          DOMAIN files \subseteq DOMAIN files']_vars

C15_Witness ==
  /\ CycleDone
  /\ FailureFree
  /\ hist.batch # {}
  /\ log.removed \ {item.absolute_path : item \in hist.batch} # {}

\* C16 (the replica root survives): in every state after a successful startup the replica
\* root is an existing directory; pruning removes directories below the root only.
C16_ReplicaRootExists ==
  /\ pc \notin {"start", "exited"} => Resolve(replica) \in dirs
  /\ Resolve(replica) \notin {Resolve(d) : d \in log.removed_dirs}

\* C17 (prune failure isolation): when one os.rmdir of a prune raises, the failure is
\* logged and every other directory of the candidate list is still removed in that call.
C17_PruneFailureIsolation ==
  CycleDone =>
    /\ hist.pruneBad # {} => log.errors > 0
    /\ \A d \in hist.pruneList \ hist.pruneBad : Resolve(d) \notin dirs

\* the directories of the replica tree without entries, and those of them below the root
EmptyNow == {Resolve(d) : d \in EmptyDirs(replica, dirs, files)}
EmptyBelowRoot == EmptyNow \ {Resolve(replica)}

C19_CopyScanRoundTrip ==
  pc = "pass1" =>
    /\ \A item \in hist.toCopy :
         item.absolute_path \notin hist.copyFailed =>
           \E r \in RepRecs :
              /\ r.relative_file_name_to_folder = item.relative_file_name_to_folder
              /\ r.hash_value = item.hash_value
    /\ \A dst \in hist.written : IsPrefix(Resolve(replica), dst)

====
